---- MODULE Spec2Model ----
(***************************************************************************)
(* A state-machine model of the stargazer fetch-and-analyse batch job:     *)
(* watchdog.py (the fetch functions and fetch_and_save_stargazer_data),    *)
(* main.py (run_analysis) and analyze.py (analyze_data).                   *)
(*                                                                         *)
(* The program is sequential.  pc names the function whose body runs next; *)
(* one action is one HTTP request of a fetch function together with the    *)
(* whole handling of its answer (one loop iteration, or one activation of  *)
(* a function that retries by calling itself).  The GitHub server and the  *)
(* network are the environment: every request draws its answer from a      *)
(* small set.  Times are in milliseconds.                                  *)
(***************************************************************************)
EXTENDS Integers, Sequences, FiniteSets, TLC

\* ------------------------------------------------------------ bounds
\* The repository has at most this many stargazers in total.
MaxStargazers == 1
\* A stargazer page carries at most this many items.
MaxPageItems == 2
\* The server sends a 'next' link only on pages before this one.
MaxPage == 2
\* The server answers at most this many requests of a run with a rate-limit 403.
MaxRateLimits == 1
\* The caller-supplied limits tried are -1 .. MaxLimit, and None.
MaxLimit == 2
\* When get_stargazers is called alone, the repository has at most this many.
MaxListed == 3

\* ------------------------------------------------- program constants
REQUEST_DELAY == 500
per_page_max == 100
LOW_REMAINING == 10
PAUSE == 60000
MIN_SLEEP == 60000
DEFAULT_RESET == 3600000
repos_limit == 5
max_pages == 1

\* ----------------------------------------------------------- values
\* Python's None / an absent header is the empty tuple, a present value v is <<v>>.
None == <<>>
Some(v) == <<v>>

Max(a, b) == IF a >= b THEN a ELSE b
Min(a, b) == IF a <= b THEN a ELSE b

\* Sequences over S of length 0 .. n.
SeqUpTo(S, n) == UNION {[1..k -> S] : k \in 0..n}

Logins == 1..Max(MaxStargazers, MaxListed)

\* The values of X-RateLimit-Remaining the server sends (absent, and at the threshold).
RemainingHeaders == {None, Some(10)}
\* The values of X-RateLimit-Reset the server sends, in epoch seconds.
ResetHeaders == {None, Some(900), Some(1090)}
\* The readings of time.time() while a rate-limit answer is handled, in ms.
Clock == {1000000, 1000700}

\* No response object: requests.get raised, or the local `response` is unbound.
NoResponse ==
  [status |-> 0, rl_text |-> FALSE, remaining |-> None, reset |-> None,
   next |-> FALSE, last |-> None, data |-> <<>>]

OkResponses(D) ==
  {[status |-> 200, rl_text |-> FALSE, remaining |-> r, reset |-> None,
    next |-> nx, last |-> None, data |-> d] :
     r \in RemainingHeaders, nx \in BOOLEAN, d \in D}

\* The same with a rel="last" link of page number n in the Link header.
WithLast(R, n) == {[r EXCEPT !.last = Some(n)] : r \in R}

\* 404, a server error, and a 403 that carries no rate-limit message.
ErrorResponses ==
  {[status |-> s, rl_text |-> FALSE, remaining |-> None, reset |-> None,
    next |-> FALSE, last |-> None, data |-> <<>>] : s \in {403, 404, 500}}

RateLimitResponses ==
  {[status |-> 403, rl_text |-> TRUE, remaining |-> Some(0), reset |-> h,
    next |-> FALSE, last |-> None, data |-> <<>>] : h \in ResetHeaders}

\* ------------------------------------------------------- pure helpers
\* response.raise_for_status(): raises for 4xx and 5xx.
raises_for_status(r) == r.status >= 400

\* status 403 and 'rate limit exceeded' / 'secondary rate limit' in the body.
rate_limited(r) == r.status = 403 /\ r.rl_text

\* int(response.headers.get('X-RateLimit-Remaining', 0))
remaining_of(r) == IF r.remaining = None THEN 0 ELSE r.remaining[1]

\* The defensive pause after a successful response.
pause_of(r) == IF remaining_of(r) < LOW_REMAINING THEN PAUSE ELSE 0

\* int() of a float number of seconds, the argument given in ms: truncation.
int_seconds(ms) == ms \div 1000

\* reset_time = int(response.headers.get('X-RateLimit-Reset', time.time() + 3600)),
\* in seconds; t1 is the reading of time.time() in the default.
reset_time(r, t1) ==
  IF r.reset = None THEN int_seconds(t1 + DEFAULT_RESET) ELSE r.reset[1]

\* A plausible slip: the floor of 60 s is forgotten.
sleep_duration_nofloor(r, t1, t2) == reset_time(r, t1) * 1000 - t2

\* sleep_duration = max(reset_time - time.time(), 60); t2 is the second reading.
sleep_duration(r, t1, t2) == Max(reset_time(r, t1) * 1000 - t2, MIN_SLEEP)

\* A plausible slip: the excess over the limit is not trimmed.
trim_to_limit_none(s, n) == s

\* stargazers[:limit] for limit >= 0.
trim_to_limit(s, n) == SubSeq(s, 1, Min(n, Len(s)))

\* What an `except RequestException` block of a fetch function decides from
\* the local `response`: "raise" (the local is unbound, so reading it raises
\* UnboundLocalError), "retry" (rate limit: sleep and retry) or "fail".
except_path(resp) ==
  IF resp = NoResponse THEN "raise"
  ELSE IF rate_limited(resp) THEN "retry"
  ELSE "fail"

\* ------------------------------------------------------------ state
VARIABLES
  pc,                 \* the function body or step that runs next
  caller,             \* who runs: "run_analysis" (main.py), "script" (watchdog.py
                      \* run directly) or "get_stargazers" (the function alone)
  limit,              \* parameter `limit` of get_stargazers: None or Some(n)
  return_filenames,   \* argument of fetch_and_save_stargazer_data
  server,             \* None: the server answers anything; Some(N): it serves a
                      \* fixed list of N stargazers with offset pagination
  rl_budget,          \* rate-limit answers the server may still give
  response,           \* the local `response` of the running fetch function
  stargazers,         \* get_stargazers: the list; then stargazers_to_analyze
  page,               \* local `page` of the running paginated function
  fetched_count,      \* local `fetched_count` of the running paginated function
  per_page,           \* local `per_page` of get_user_repos
  repos,              \* local `repos` of get_user_repos
  activities,         \* local `activities` of get_user_activity
  i,                  \* index (from 1) of the stargazer being processed
  user_data,          \* the row being built for stargazer i
  starred_repos_list, \* result of get_starred_repos for stargazer i
  analysis_results,
  user_all_starred_map,
  user_owned_repos_map,
  user_activity_map,
  files,              \* the output files written so far
  io_failed,          \* some file write of the run failed
  result,             \* what fetch_and_save_stargazer_data returned
  analysis,           \* what analyze_data returned ("none" until it runs)
  report,             \* the Markdown report: "none", "complete" or "incomplete"
  \* What the last step did on the wire and on the clock:
  lastReq,            \* the last HTTP request issued
  lastOutcome,        \* its answer, NoResponse if requests.get raised
  sinceReq,           \* total time slept since the last request was issued
  rlSleep,            \* the rate-limit sleep of the last step, if any
  returned            \* the fetch function that returned in the last step, and what

run_vars == <<caller, return_filenames, server>>
page_vars == <<page, fetched_count, per_page, repos, activities>>
user_vars == <<i, user_data, starred_repos_list>>
out_vars ==
  <<analysis_results, user_all_starred_map, user_owned_repos_map,
    user_activity_map, files, io_failed, result, analysis, report>>
wire_vars == <<lastReq, lastOutcome, sinceReq, rlSleep>>

vars ==
  <<pc, caller, limit, return_filenames, server, rl_budget, response, stargazers,
    page, fetched_count, per_page, repos, activities, i, user_data,
    starred_repos_list, analysis_results, user_all_starred_map,
    user_owned_repos_map, user_activity_map, files, io_failed, result,
    analysis, report, lastReq, lastOutcome, sinceReq, rlSleep, returned>>

\* A request: the function that issues it and the URL's path, user, page and per_page.
Url(fn, path, login, pg, pp) ==
  [fn |-> fn, path |-> path, login |-> login, page |-> pg, per_page |-> pp]
NoReq == Url("none", "", 0, 0, 0)
\* A return value: its kind ("None", "dict", "list", "int", "str", "Private")
\* and its size or number.
Value(kind, val) == [kind |-> kind, val |-> val]
PyNone == Value("None", 0)
\* Function fn returned value v.
Ret(fn, v) == [fn |-> fn, val |-> v]
NoReturn == Ret("none", Value("unset", 0))
NoSleep == [slept |-> FALSE, reset |-> None, t1 |-> 0, t2 |-> 0, dur |-> 0]
NoRow == [login |-> 0]

Limits == {None} \cup {Some(n) : n \in (0 - 1)..MaxLimit}

\* Logins are named in the order of their first appearance in a list.
Canonical(s) ==
  \A k \in 1..Len(s) :
    \/ s[k] = 1
    \/ \E j \in 1..(k - 1) : s[j] = s[k] \/ s[j] = s[k] - 1

\* The state when fetch_and_save_stargazer_data has generated the filenames
\* and get_stargazers starts.  run_analysis passes return_filenames=True, the
\* script entry of watchdog.py leaves it at its default, False.
StartWith(callers, limits, servers) ==
  /\ pc = "get_stargazers"
  /\ caller \in callers
  /\ limit \in limits
  /\ return_filenames = (caller = "run_analysis")
  /\ server \in servers
  /\ rl_budget = MaxRateLimits
  /\ response = NoResponse
  /\ stargazers = <<>>
  /\ page = 1
  /\ fetched_count = 0
  /\ per_page = 0
  /\ repos = <<>>
  /\ activities = <<>>
  /\ i = 0
  /\ user_data = NoRow
  /\ starred_repos_list = None
  /\ analysis_results = <<>>
  /\ user_all_starred_map = <<>>
  /\ user_owned_repos_map = <<>>
  /\ user_activity_map = <<>>
  /\ files = {}
  /\ io_failed = FALSE
  /\ result = "pending"
  /\ analysis = "none"
  /\ report = "none"
  /\ lastReq = NoReq
  /\ lastOutcome = NoResponse
  /\ sinceReq = 0
  /\ rlSleep = NoSleep
  /\ returned = NoReturn

\* The same against a server that may answer anything.
Start(callers) == StartWith(callers, Limits, {None})

Init == Start({"run_analysis", "script"})

\* -------------------------------------------------------- the wire
\* The answers the server may give to a request whose successful body is in D.
Answers(D) ==
  OkResponses(D) \cup ErrorResponses
    \cup (IF rl_budget > 0 THEN RateLimitResponses ELSE {})

\* requests.get(url) was called and answered with r.
Issued(url, r) ==
  /\ lastReq' = url
  /\ lastOutcome' = r
  /\ rl_budget' = IF rate_limited(r) THEN rl_budget - 1 ELSE rl_budget

\* The rate-limit branch of an except block: resp is the local `response`.
\* t1 is the reading of time.time() in the default of the header (read only
\* when the header is absent), t2 the later reading in the subtraction.
RateLimitSleep(resp) ==
  \E t1 \in Clock, t2 \in Clock :
    /\ IF resp.reset = None THEN t1 <= t2 ELSE t1 = t2
    /\ rlSleep' =
         [slept |-> TRUE, reset |-> resp.reset, t1 |-> t1, t2 |-> t2,
          dur |-> sleep_duration(resp, t1, t2)]
    /\ sinceReq' = sleep_duration(resp, t1, t2)

\* No request follows: the record of the wire is dropped.
WireClosed ==
  /\ rl_budget' = 0
  /\ lastReq' = NoReq
  /\ lastOutcome' = NoResponse
  /\ sinceReq' = 0
  /\ rlSleep' = NoSleep

\* No rate-limit sleep in this step; d is the time slept after the answer.
Slept(d) == sinceReq' = d /\ rlSleep' = NoSleep

\* The stargazer being processed.
username == stargazers[i]

\* get_stargazers: remaining_needed <= 0.
limit_reached == limit # None /\ limit[1] - fetched_count <= 0

\* get_stargazers: current_per_page = min(per_page, remaining_needed).
current_per_page ==
  IF limit # None /\ limit[1] - fetched_count < per_page_max
  THEN limit[1] - fetched_count ELSE per_page_max

\* The HTTP request the step at pc issues, NoReq when it issues none.
next_request ==
  CASE pc = "get_stargazers" ->
         IF limit_reached THEN NoReq
         ELSE Url("get_stargazers", "stargazers", 0, page, current_per_page)
    [] pc = "get_user_details" -> Url("get_user_details", "users", username, 0, 0)
    [] pc = "get_user_repos" ->
         IF repos_limit <= 0 \/ ~(fetched_count < repos_limit) THEN NoReq
         ELSE Url("get_user_repos", "repos", username, page, per_page)
    [] pc = "get_starred_repos" ->
         Url("get_starred_repos", "starred", username, 1, per_page_max)
    [] pc = "get_total_starred_count" ->
         Url("get_total_starred_count", "starred", username, 0, 1)
    [] pc = "get_total_starred_count_user" ->
         Url("get_total_starred_count", "users", username, 0, 0)
    [] pc = "get_user_activity" ->
         IF page <= max_pages
         THEN Url("get_user_activity", "events", username, page, 30)
         ELSE NoReq
    [] OTHER -> NoReq

\* ----------------------------------------------------- get_stargazers
\* Page p of a list of N users served k per page: users (p-1)*k+1 .. p*k.
OffsetPage(N, p, k) ==
  LET lo == Min((p - 1) * k, N)
      hi == Min(p * k, N)
  IN [j \in 1..(hi - lo) |-> lo + j]

\* The successful bodies of a stargazers page: lists of users.
StargazerPages ==
  LET total == IF caller = "get_stargazers" THEN MaxListed ELSE MaxStargazers
  IN IF server # None
     THEN {OffsetPage(server[1], page, current_per_page)}
     ELSE {d \in SeqUpTo(Logins, Min(MaxPageItems, total - fetched_count)) :
             Canonical(stargazers \o d)}

\* When a stargazers page carries a 'next' link.
StargazersNext(r) ==
  IF server # None
  THEN r.next = (r.status = 200 /\ page * current_per_page < server[1])
  ELSE r.next => page < MaxPage

\* get_stargazers returns list: fetch_and_save_stargazer_data goes on.
StargazersReturned(list) ==
  /\ pc' = IF caller = "get_stargazers" THEN "returned" ELSE "check_stargazers"
  /\ stargazers' = list
  /\ returned' = Ret("get_stargazers", Value("list", Len(list)))

\* One iteration of the `while True` loop of get_stargazers.
get_stargazers_page ==
  /\ pc = "get_stargazers"
  /\ UNCHANGED <<run_vars, limit, user_vars, out_vars, per_page, repos, activities>>
  /\ IF limit_reached
     THEN \* break, no request
          /\ StargazersReturned(stargazers)
          /\ UNCHANGED <<rl_budget, response, page, fetched_count, wire_vars>>
     ELSE
     \/ \E r \in Answers(StargazerPages) :
          /\ StargazersNext(r)
          /\ Issued(next_request, r)
          /\ response' = r
          /\ IF ~raises_for_status(r)
             THEN IF r.data = <<>>
                  THEN \* no more stargazers
                       /\ StargazersReturned(stargazers)
                       /\ Slept(pause_of(r))
                       /\ UNCHANGED <<page, fetched_count>>
                  ELSE LET all == stargazers \o r.data
                           cnt == fetched_count + Len(r.data)
                       IN /\ fetched_count' = cnt
                          /\ IF limit # None /\ cnt >= limit[1]
                             THEN /\ StargazersReturned(trim_to_limit(all, limit[1]))
                                  /\ Slept(pause_of(r))
                                  /\ UNCHANGED page
                             ELSE IF ~r.next
                             THEN /\ StargazersReturned(all)
                                  /\ Slept(pause_of(r))
                                  /\ UNCHANGED page
                             ELSE /\ stargazers' = all
                                  /\ page' = page + 1
                                  /\ pc' = pc
                                  /\ returned' = NoReturn
                                  /\ Slept(pause_of(r) + REQUEST_DELAY)
             ELSE IF rate_limited(r)
                  THEN \* sleep, then `continue`: the same page again
                       /\ RateLimitSleep(r)
                       /\ pc' = pc
                       /\ returned' = NoReturn
                       /\ UNCHANGED <<stargazers, page, fetched_count>>
                  ELSE \* `break`: the list fetched so far is returned
                       /\ StargazersReturned(stargazers)
                       /\ Slept(0)
                       /\ UNCHANGED <<page, fetched_count>>
     \/ \* requests.get raises: `response` keeps the previous iteration's value
        /\ Issued(next_request, NoResponse)
        /\ UNCHANGED <<response, page, fetched_count>>
        /\ CASE except_path(response) = "raise" ->
                  /\ Slept(0)
                  /\ pc' = "raised"
                  /\ returned' = NoReturn
                  /\ UNCHANGED stargazers
             [] except_path(response) = "retry" ->
                  /\ RateLimitSleep(response)
                  /\ pc' = pc
                  /\ returned' = NoReturn
                  /\ UNCHANGED stargazers
             [] except_path(response) = "fail" ->
                  /\ Slept(0)
                  /\ StargazersReturned(stargazers)

\* --------------------------------------- the loop over the stargazers
\* The row of a stargazer before anything is known: 'Error' in every field.
\* The columns kept are the ones that tell the fetch outcomes apart.
error_row(login) ==
  [login |-> login, has_public_repos |-> "Error", top_5_repos |-> "Error",
   starred_repo_status |-> "Error", user_activity |-> "Error"]

\* dict[key] = value on a dict modelled as a function.
put(m, k, v) == [x \in DOMAIN m \cup {k} |-> IF x = k THEN v ELSE m[x]]

maps == <<user_all_starred_map, user_owned_repos_map, user_activity_map>>
fixed ==
  <<caller, return_filenames, server, limit, stargazers, files, io_failed, result,
    analysis, report>>

\* A function is entered: its frame has fresh locals.
Enter(fn) ==
  /\ pc' = fn
  /\ response' = NoResponse
  /\ page' = 1
  /\ fetched_count' = 0
  /\ per_page' = IF fn = "get_user_repos" THEN Min(repos_limit, per_page_max) ELSE 0
  /\ repos' = <<>>
  /\ activities' = <<>>

\* fetch_and_save_stargazer_data after get_stargazers has returned: the
\* early return on an empty list, else the loop over the stargazers starts.
check_stargazers ==
  /\ pc = "check_stargazers"
  /\ UNCHANGED <<run_vars, rl_budget, stargazers, wire_vars, user_data,
                 starred_repos_list, analysis_results, maps, files, io_failed,
                 analysis, report>>
  /\ limit' = None
  /\ returned' = NoReturn
  /\ IF stargazers = <<>>
     THEN /\ pc' = "returned"
          /\ result' = "None"
          /\ UNCHANGED <<response, page_vars, i>>
     ELSE /\ Enter("get_user_details")
          /\ i' = 1
          /\ UNCHANGED result

\* analysis_results.append(user_data), then the next stargazer or the export.
\* starred_repos_list is dead here and is cleared.
AppendRow(row) ==
  /\ analysis_results' = Append(analysis_results, row)
  /\ user_data' = row
  /\ starred_repos_list' = None
  /\ IF i < Len(stargazers)
     THEN i' = i + 1 /\ Enter("get_user_details")
     ELSE i' = i /\ Enter("export")

\* The next fetch function is called for the same stargazer.
NextCall(fn, row) ==
  /\ Enter(fn)
  /\ user_data' = row
  /\ UNCHANGED <<i, analysis_results>>

\* UnboundLocalError in an except block: it leaves fetch_and_save_stargazer_data.
Raised ==
  /\ pc' = "raised"
  /\ returned' = NoReturn
  /\ UNCHANGED <<response, page_vars, user_vars, analysis_results, maps>>

\* A plausible slip: the retry moves on to the next page.
Again_next_page(resp) ==
  /\ pc' = pc
  /\ response' = resp
  /\ returned' = NoReturn
  /\ page' = page + 1
  /\ UNCHANGED <<fetched_count, per_page, repos, activities, user_vars,
                 analysis_results, maps>>

\* `continue` of a loop whose local `response` becomes resp.
Again(resp) ==
  /\ pc' = pc
  /\ response' = resp
  /\ returned' = NoReturn
  /\ UNCHANGED <<page_vars, user_vars, analysis_results, maps>>

\* `return f(username)` in the except block of the retrying function f:
\* a new activation, whose `response` is unbound.
Recurse(fn) ==
  /\ pc' = fn
  /\ response' = NoResponse
  /\ returned' = NoReturn
  /\ UNCHANGED <<page_vars, user_vars, analysis_results, maps>>

\* The except block of a fetch function, entered with the local `response`
\* as it is: OnRetry after the rate-limit sleep, OnFail otherwise.
Except(OnRetry, OnFail) ==
  CASE except_path(response) = "raise" -> Slept(0) /\ Raised
    [] except_path(response) = "retry" -> RateLimitSleep(response) /\ OnRetry
    [] except_path(response) = "fail" -> Slept(0) /\ OnFail

\* requests.get raised.
NetworkError(OnRetry, OnFail) ==
  /\ Issued(next_request, NoResponse)
  /\ Except(OnRetry, OnFail)

\* The profile of a user: the dict reduced to its public_repos, an integer
\* or a value that is not one (None stands for a JSON null).
UserBodies == {<<Some(0)>>, <<Some(2)>>, <<None>>}

\* get_user_repos(login, limit=5) has returned ret; then the starred repos.
ReposReturned(ret) ==
  /\ returned' = Ret("get_user_repos",
                     IF ret = None THEN PyNone ELSE Value("list", Len(ret[1])))
  /\ UNCHANGED <<user_all_starred_map, user_activity_map, starred_repos_list>>
  /\ IF ret = None
     THEN /\ NextCall("get_starred_repos",
                      [user_data EXCEPT !.top_5_repos = "Error fetching repos"])
          /\ UNCHANGED user_owned_repos_map
     ELSE /\ NextCall("get_starred_repos",
                      [user_data EXCEPT !.top_5_repos =
                         IF ret[1] = <<>> THEN "None" ELSE "names"])
          /\ user_owned_repos_map' = put(user_owned_repos_map, user_data.login, ret[1])

\* A plausible slip: a user with 0 public repos counts as having some.
has_public_repos_nonneg(public_repos) ==
  IF public_repos = None THEN "Error"
  ELSE IF public_repos[1] >= 0 THEN "True" ELSE "False"

\* user_data['has_public_repos']:
\* public_repos > 0 if isinstance(public_repos, int) else 'Error'
has_public_repos(public_repos) ==
  IF public_repos = None THEN "Error"
  ELSE IF public_repos[1] > 0 THEN "True" ELSE "False"

\* fetch_and_save_stargazer_data once get_user_details has returned details.
DetailsReturned(details) ==
  /\ returned' = Ret("get_user_details",
                     IF details = None THEN PyNone ELSE Value("dict", 1))
  /\ IF details # None /\ details[1] # <<>>
     THEN LET public_repos == details[1][1]
              row == [error_row(username) EXCEPT
                        !.has_public_repos = has_public_repos(public_repos)]
          IN /\ UNCHANGED <<maps, starred_repos_list>>
             /\ IF row.has_public_repos = "True"
                THEN NextCall("get_user_repos", row)
                ELSE NextCall("get_starred_repos",
                              [row EXCEPT !.top_5_repos = "N/A (0 public repos)"])
     ELSE /\ AppendRow(error_row(username))
          /\ UNCHANGED maps

\* One activation of get_user_details.
get_user_details ==
  /\ pc = "get_user_details"
  /\ UNCHANGED fixed
  /\ \/ \E r \in Answers(UserBodies) :
          /\ ~r.next
          /\ Issued(next_request, r)
          /\ IF ~raises_for_status(r)
             THEN /\ Slept(pause_of(r) + REQUEST_DELAY)
                  /\ DetailsReturned(Some(r.data))
             ELSE IF rate_limited(r)
             THEN RateLimitSleep(r) /\ Recurse("get_user_details")
             ELSE Slept(0) /\ DetailsReturned(None)
     \/ NetworkError(Recurse("get_user_details"), DetailsReturned(None))

\* The pages of a user's repositories.
RepoPageSizes == {0, 3}
RepoPages == {[k \in 1..n |-> k] : n \in RepoPageSizes}

\* repos[:limit]
first_n(s, n) == SubSeq(s, 1, Min(n, Len(s)))

\* One iteration of the `while fetched_count < limit` loop of get_user_repos.
get_user_repos_page ==
  /\ pc = "get_user_repos"
  /\ UNCHANGED fixed
  /\ IF next_request = NoReq
     THEN /\ ReposReturned(Some(first_n(repos, repos_limit)))
          /\ UNCHANGED <<rl_budget, wire_vars>>
     ELSE
     \/ \E r \in Answers(RepoPages) :
          /\ r.next => page < MaxPage
          /\ Issued(next_request, r)
          /\ IF ~raises_for_status(r)
             THEN IF r.data = <<>>
                  THEN /\ Slept(pause_of(r))
                       /\ ReposReturned(Some(first_n(repos, repos_limit)))
                  ELSE LET all == repos \o r.data
                           cnt == fetched_count + Len(r.data)
                       IN IF cnt >= repos_limit \/ ~r.next
                          THEN /\ Slept(pause_of(r))
                               /\ ReposReturned(Some(first_n(all, repos_limit)))
                          ELSE /\ Slept(pause_of(r) + REQUEST_DELAY)
                               /\ pc' = pc
                               /\ returned' = NoReturn
                               /\ response' = r
                               /\ repos' = all
                               /\ fetched_count' = cnt
                               /\ page' = page + 1
                               /\ per_page' = IF repos_limit - cnt < per_page
                                              THEN repos_limit - cnt ELSE per_page
                               /\ UNCHANGED <<activities, user_vars, analysis_results, maps>>
             ELSE IF rate_limited(r)
             THEN RateLimitSleep(r) /\ Again(r)
             ELSE Slept(0) /\ ReposReturned(None)
     \/ NetworkError(Again(response), ReposReturned(None))

\* The first page of a user's starred repositories.
StarredPages == {<<>>, <<1>>}

\* get_starred_repos has returned ret; get_total_starred_count is called next.
StarredReturned(ret) ==
  /\ returned' = Ret("get_starred_repos",
                     IF ret = None THEN PyNone ELSE Value("list", Len(ret[1])))
  /\ starred_repos_list' = ret
  /\ NextCall("get_total_starred_count", user_data)
  /\ UNCHANGED maps

\* One activation of get_starred_repos.
get_starred_repos ==
  /\ pc = "get_starred_repos"
  /\ UNCHANGED fixed
  /\ \/ \E r \in Answers(StarredPages) :
          /\ ~r.next
          /\ Issued(next_request, r)
          /\ IF r.status = 404
             THEN Slept(0) /\ StarredReturned(None)
             ELSE IF ~raises_for_status(r)
             THEN /\ Slept(pause_of(r) + REQUEST_DELAY)
                  /\ StarredReturned(Some(r.data))
             ELSE IF rate_limited(r)
             THEN RateLimitSleep(r) /\ Recurse("get_starred_repos")
             ELSE Slept(0) /\ StarredReturned(None)
     \/ NetworkError(Recurse("get_starred_repos"), StarredReturned(None))

\* The first page (per_page=1) of the starred repositories, as the count
\* request sees it, and the page number of a rel="last" link when there is one.
CountPages == {<<>>, <<1>>}
LastPages == {3}

\* The events of a user.
ActivityPages == {<<>>, <<1>>}

\* f"{created_at}: {event_type} on {repo_name}": one string per event.
format_activity(e) == <<"activity", e>>
formatted(acts) == [k \in 1..Len(acts) |-> format_activity(acts[k])]

\* get_user_activity has returned ret; the row is complete.
ActivityReturned(ret) ==
  /\ returned' = Ret("get_user_activity",
                     IF ret = None THEN PyNone ELSE Value("list", Len(ret[1])))
  /\ UNCHANGED <<user_all_starred_map, user_owned_repos_map>>
  /\ IF ret = None
     THEN /\ AppendRow([user_data EXCEPT
                          !.user_activity = "Error fetching activity or private"])
          /\ UNCHANGED user_activity_map
     ELSE IF ret[1] = <<>>
     THEN /\ AppendRow([user_data EXCEPT !.user_activity = "No recent activity"])
          /\ UNCHANGED user_activity_map
     ELSE /\ AppendRow([user_data EXCEPT !.user_activity = "events"])
          /\ user_activity_map' = put(user_activity_map, user_data.login, ret[1])

\* user_data['starred_repo_status'] once get_starred_repos has returned: the
\* default, 'Error', remains if starred_repos_list is None.
starred_status ==
  IF starred_repos_list = None THEN user_data.starred_repo_status
  ELSE IF Len(starred_repos_list[1]) = 0
  THEN "Private (No Access to Starred Repo)"
  ELSE "Public (Has Starred Repos)"

\* A plausible slip: the activity is fetched for every user.
is_public_user_always == TRUE

\* Whether the activity of the user is fetched.
is_public_user ==
  \/ user_data.has_public_repos = "True"
  \/ (starred_repos_list # None /\ Len(starred_repos_list[1]) > 0)

\* get_total_starred_count has returned v: the starred columns of the row
\* are filled in, then the activity is fetched for a public user.
CountReturned(v) ==
  LET login == user_data.login
      listed == starred_repos_list # None
      row == [user_data EXCEPT !.starred_repo_status = starred_status]
  IN /\ returned' = Ret("get_total_starred_count", v)
     /\ user_all_starred_map' =
          IF listed THEN put(user_all_starred_map, login, starred_repos_list[1])
          ELSE user_all_starred_map
     /\ IF is_public_user
        THEN /\ NextCall("get_user_activity", row)
             /\ UNCHANGED <<starred_repos_list, user_owned_repos_map, user_activity_map>>
        ELSE /\ AppendRow([row EXCEPT !.user_activity = "N/A (Private user)"])
             /\ UNCHANGED <<user_owned_repos_map, user_activity_map>>

\* get_total_starred_count up to its first request and the Link header.
get_total_starred_count ==
  /\ pc = "get_total_starred_count"
  /\ UNCHANGED fixed
  /\ \/ \E r \in Answers(CountPages)
                   \cup UNION {WithLast({o \in OkResponses(CountPages) :
                                           o.next /\ o.data # <<>>}, n) :
                               n \in LastPages} :
          /\ Issued(next_request, r)
          /\ IF r.status = 404
             THEN Slept(0) /\ CountReturned(Value("Private", 0))
             ELSE IF ~raises_for_status(r)
             THEN /\ Slept(pause_of(r))
                  /\ IF r.last # None
                     THEN \* int(page_num) * int(per_page), per_page = 1
                          CountReturned(Value("int", r.last[1] * 1))
                     ELSE \* on to the request of the user API, same frame
                          /\ pc' = "get_total_starred_count_user"
                          /\ response' = r
                          /\ returned' = NoReturn
                          /\ UNCHANGED <<page_vars, user_vars, analysis_results, maps>>
             ELSE IF rate_limited(r)
             THEN RateLimitSleep(r) /\ Recurse("get_total_starred_count")
             ELSE Slept(0) /\ CountReturned(PyNone)
     \/ NetworkError(Recurse("get_total_starred_count"), CountReturned(PyNone))

\* get_total_starred_count from its second request (the user API) on.
\* The except block reads `response`, the answer to the first request.
get_total_starred_count_user ==
  /\ pc = "get_total_starred_count_user"
  /\ UNCHANGED fixed
  /\ LET first_page_count == Len(response.data)
     IN \/ \E r \in Answers(UserBodies) :
             /\ ~r.next
             /\ Issued(next_request, r)
             /\ IF ~raises_for_status(r)
                THEN /\ Slept(0)
                     /\ IF response.next
                        THEN CountReturned(Value("str", first_page_count))
                        ELSE CountReturned(Value("int", first_page_count))
                ELSE \* user_response.raise_for_status() raised
                     Except(Recurse("get_total_starred_count"), CountReturned(PyNone))
        \/ NetworkError(Recurse("get_total_starred_count"), CountReturned(PyNone))

\* One iteration of the `while page <= max_pages` loop of get_user_activity.
get_user_activity_page ==
  /\ pc = "get_user_activity"
  /\ UNCHANGED fixed
  /\ IF next_request = NoReq
     THEN /\ ActivityReturned(Some(formatted(activities)))
          /\ UNCHANGED <<rl_budget, wire_vars>>
     ELSE
     \/ \E r \in Answers(ActivityPages) :
          /\ r.next => page < MaxPage
          /\ Issued(next_request, r)
          /\ IF r.status = 404
             THEN Slept(0) /\ ActivityReturned(None)
             ELSE IF ~raises_for_status(r)
             THEN IF r.data = <<>>
                  THEN /\ Slept(pause_of(r))
                       /\ ActivityReturned(Some(formatted(activities)))
                  ELSE IF ~r.next \/ page >= max_pages
                  THEN /\ Slept(pause_of(r))
                       /\ ActivityReturned(Some(formatted(activities \o r.data)))
                  ELSE /\ Slept(pause_of(r) + REQUEST_DELAY)
                       /\ pc' = pc
                       /\ returned' = NoReturn
                       /\ response' = r
                       /\ activities' = activities \o r.data
                       /\ page' = page + 1
                       /\ UNCHANGED <<fetched_count, per_page, repos, user_vars,
                                      analysis_results, maps>>
             ELSE IF rate_limited(r)
             THEN RateLimitSleep(r) /\ Again(r)
             ELSE Slept(0) /\ ActivityReturned(None)
     \/ NetworkError(Again(response), ActivityReturned(None))

\* ------------------------------------------------ export and analysis
\* The CSV exports of fetch_and_save_stargazer_data and its return.  A file
\* is written when its data is not empty; a write that fails leaves no file
\* (at most one write of a run fails).
export ==
  /\ pc = "export"
  /\ returned' = NoReturn
  /\ WireClosed
  /\ UNCHANGED <<run_vars, limit, response, stargazers, page_vars, user_vars,
                 analysis_results, maps, analysis, report>>
  /\ LET attempted ==
           (IF analysis_results # <<>> THEN {"analysis_csv"} ELSE {})
             \cup (IF DOMAIN user_all_starred_map # {} THEN {"starred_list_csv"} ELSE {})
             \cup (IF DOMAIN user_owned_repos_map # {} THEN {"owned_list_csv"} ELSE {})
             \cup (IF DOMAIN user_activity_map # {} THEN {"user_activity_csv"} ELSE {})
     IN \E failed \in {{}} \cup {{f} : f \in attempted} :
          /\ files' = files \cup (attempted \ failed)
          /\ io_failed' = (io_failed \/ failed # {})
  /\ result' = IF return_filenames THEN "filenames" ELSE "None"
  /\ pc' = "returned"

\* A plausible slip: what the fetch step returned is not examined.
got_filenames_unchecked == pc = "returned"

\* run_analysis: the fetch step returned a non-empty dict (`isinstance(result,
\* dict)` and `if not filenames`), and did not raise.
got_filenames == pc = "returned" /\ result = "filenames"

\* run_analysis once the fetch step has returned or raised.
run_analysis ==
  /\ pc \in {"returned", "raised"}
  /\ caller = "run_analysis"
  /\ returned' = NoReturn
  /\ WireClosed
  /\ UNCHANGED <<run_vars, limit, response, stargazers, page_vars, user_vars,
                 analysis_results, maps, files, io_failed, result, analysis,
                 report>>
  /\ pc' = IF got_filenames THEN "analyze_data" ELSE "done"

\* What may interrupt the analysis inside its try block.
Interrupts == {"none", "EmptyDataError", "KeyError", "Exception"}

\* analyze_data(owner, repo, filenames), called by run_analysis.
analyze_data ==
  /\ pc = "analyze_data"
  /\ pc' = "done"
  /\ UNCHANGED <<run_vars, limit, rl_budget, response, stargazers, page_vars,
                 user_vars, analysis_results, maps, result, wire_vars, returned>>
  /\ IF "analysis_csv" \notin files \/ "owned_list_csv" \notin files
     THEN /\ analysis' = "False"
          /\ UNCHANGED <<files, io_failed, report>>
     ELSE \E interrupt \in Interrupts, written \in BOOLEAN :
            LET total_users == Len(analysis_results)
                content == IF interrupt = "none" /\ total_users > 0
                           THEN "complete" ELSE "incomplete"
            IN /\ files' = IF written THEN files \cup {"report_md"} ELSE files
               /\ report' = IF written THEN content ELSE report
               /\ io_failed' = (io_failed \/ ~written)
               /\ analysis' = IF written /\ ~(interrupt = "none" /\ total_users = 0)
                              THEN "True" ELSE "False"

Next ==
  \/ get_stargazers_page
  \/ check_stargazers
  \/ get_user_details
  \/ get_user_repos_page
  \/ get_starred_repos
  \/ get_total_starred_count
  \/ get_total_starred_count_user
  \/ get_user_activity_page
  \/ export
  \/ run_analysis
  \/ analyze_data

\* A run of the whole job, from main.py or from watchdog.py.
Spec == Init /\ [][Next]_vars

\* The same run of a program that does not stop by itself: the interpreter
\* takes the next step whenever there is one.  The server gives at most
\* MaxRateLimits rate-limit answers and at most MaxPage pages of a listing.
SpecFair == Spec /\ WF_vars(Next)

\* get_stargazers called alone, against a server with offset pagination whose
\* list is shorter than a page or a little longer.
ServedSizes == (0..MaxLimit) \cup {per_page_max + n : n \in 0..MaxLimit}
OffsetLimits == Limits \cup {Some(per_page_max + n) : n \in 0..MaxLimit}
InitOffset ==
  StartWith({"get_stargazers"}, OffsetLimits, {Some(N) : N \in ServedSizes})
SpecOffset == InitOffset /\ [][get_stargazers_page]_vars

\* get_stargazers called alone, against a larger repository.
InitStargazers == Start({"get_stargazers"})
NextStargazers == get_stargazers_page
SpecStargazers == InitStargazers /\ [][NextStargazers]_vars

\* ----------------------------------------------------------- properties
\* The last request was answered, and not with a 2xx status or a rate limit.
FailedAnswer == lastOutcome.status >= 400 /\ ~rate_limited(lastOutcome)
\* requests.get raised on the last request.
NetworkFailure == lastReq # NoReq /\ lastOutcome = NoResponse

\* C1: whenever a request of a fetch function is answered by a rate-limit
\* 403, the function sleeps and then issues the same request again; it does
\* not return before the retry.  (Fails: the second request of
\* get_total_starred_count.)
C1_RateLimitRetried ==
  rate_limited(lastOutcome) =>
    /\ rlSleep.slept
    /\ returned = NoReturn
    /\ next_request = lastReq

\* The same for every request but the second one of get_total_starred_count.
C1_RateLimitRetriedElsewhere ==
  (/\ rate_limited(lastOutcome)
   /\ lastReq # Url("get_total_starred_count", "users", lastReq.login, 0, 0)) =>
    /\ rlSleep.slept
    /\ returned = NoReturn
    /\ next_request = lastReq

\* C2: every rate-limit sleep lasts max(reset_time - now, 60): never less than
\* 60 s, never less than the time to the reset, and exactly one of the two;
\* a missing X-RateLimit-Reset header stands for now + 3600 s.
C2_SleepDuration ==
  rlSleep.slept =>
    LET target == IF rlSleep.reset = None
                  THEN ((rlSleep.t1 + 3600000) \div 1000) * 1000
                  ELSE rlSleep.reset[1] * 1000
        to_reset == target - rlSleep.t2
    IN /\ rlSleep.dur >= 60000
       /\ rlSleep.dur >= to_reset
       /\ rlSleep.dur \in {60000, to_reset}
       /\ sinceReq = rlSleep.dur

\* C2 happens: a rate-limit answer whose reset time is already past was slept on.
C2_Witness ==
  /\ rlSleep.slept
  /\ rate_limited(lastOutcome)
  /\ rlSleep.reset # None
  /\ rlSleep.reset[1] * 1000 < rlSleep.t2

\* C3: when get_user_details, get_starred_repos, get_total_starred_count or
\* get_user_activity returns after a 404, what it returns differs from what
\* it returns on a generic failure (None).  (Fails: only
\* get_total_starred_count tells the two apart.)
C3_NotFoundDistinct ==
  (/\ returned.fn \in {"get_user_details", "get_starred_repos",
                       "get_total_starred_count", "get_user_activity"}
   /\ lastReq.fn = returned.fn
   /\ lastOutcome.status = 404) => returned.val # PyNone

\* The generic failure value is None in all four.
C3_FailureIsNone ==
  (/\ returned.fn \in {"get_user_details", "get_starred_repos",
                       "get_total_starred_count", "get_user_activity"}
   /\ lastReq.fn = returned.fn
   /\ lastOutcome.status = 500) => returned.val = PyNone

\* C4: after a request of get_stargazers has failed (a non-2xx answer that is
\* no rate limit), fetch_and_save_stargazer_data does not go on to process
\* stargazers.  (Fails: the pages fetched before the failure are processed.)
C4_FailureAborts ==
  (lastReq.fn = "get_stargazers" /\ FailedAnswer) =>
    pc \notin {"get_user_details", "export"}

\* C5: a network exception never escapes a fetch function: the function ends
\* with a failure value.  (Fails: on the first request of a function the
\* except block reads the unbound local `response`.)
C5_NoExceptionEscapes == NetworkFailure => pc # "raised"

\* C6: get_stargazers asks for a further page only after a page that was not
\* empty, carried a 'next' link and left the limit unreached; with a limit
\* >= 0 it returns at most limit stargazers, and with a limit <= 0 it issues
\* no request at all.
C6_Pagination ==
  /\ (/\ lastReq.fn = "get_stargazers"
      /\ lastOutcome.status = 200
      /\ \/ ~lastOutcome.next
         \/ lastOutcome.data = <<>>
         \/ (limit # None /\ fetched_count >= limit[1]))
       => pc # "get_stargazers"
  /\ (returned.fn = "get_stargazers" /\ limit # None /\ limit[1] >= 0)
       => Len(stargazers) <= limit[1]
  /\ (limit # None /\ limit[1] <= 0) => lastReq = NoReq

\* C6 happens: a page carried more stargazers than the limit left room for,
\* and get_stargazers returned.
C6_Witness ==
  /\ returned.fn = "get_stargazers"
  /\ limit # None
  /\ limit[1] > 0
  /\ fetched_count > limit[1]
  /\ lastOutcome.next

\* C7: whenever an HTTP request is about to be issued after an earlier one,
\* at least REQUEST_DELAY has been slept since the earlier one.  (Fails:
\* several paths sleep nothing, e.g. after the last page of get_stargazers.)
C7_DelayBetweenRequests ==
  (next_request # NoReq /\ lastReq # NoReq) => sinceReq >= 500

\* C8: whenever an HTTP request is about to be issued and the previous one
\* was answered 2xx with X-RateLimit-Remaining below 10 (absent: 0), 60 s have
\* been slept since.  (Fails: after the second request of
\* get_total_starred_count.)
C8_PauseWhenLow ==
  (/\ next_request # NoReq
   /\ lastOutcome.status = 200
   /\ (lastOutcome.remaining = None \/ lastOutcome.remaining[1] < 10))
    => sinceReq >= 60000

\* The same for every request but the second one of get_total_starred_count.
C8_PauseWhenLowElsewhere ==
  (/\ next_request # NoReq
   /\ lastOutcome.status = 200
   /\ (lastOutcome.remaining = None \/ lastOutcome.remaining[1] < 10)
   /\ lastReq # Url("get_total_starred_count", "users", lastReq.login, 0, 0))
    => sinceReq >= 60000

\* C9: a run of run_analysis in which get_stargazers returned at least one
\* stargazer, every stargazer got its row and every file write succeeded ends
\* with the report written.  (Fails: with user_owned_repos_map empty no owned
\* repos CSV is written and analyze_data gives up before the report.)
C9_ReportWritten ==
  (/\ pc = "done"
   /\ Len(stargazers) >= 1
   /\ Len(analysis_results) = Len(stargazers)
   /\ ~io_failed) => "report_md" \in files

\* C10: fetch_and_save_stargazer_data returns the filenames dict when
\* return_filenames is True and None otherwise.  (Fails: the early return
\* on an empty stargazer list returns None.)
C10_ReturnsFilenames ==
  pc = "returned" => result = (IF return_filenames THEN "filenames" ELSE "None")

\* C11: every value get_total_starred_count returns is an integer, None or
\* the string "Private".  (Fails: with a 'next' link and no usable rel="last"
\* link it returns the string f"{first_page_count}+".)
C11_CountValueKinds ==
  returned.fn = "get_total_starred_count" =>
    returned.val.kind \in {"int", "None", "Private"}

\* C12: analyze_data returns True exactly when the analysis completed: the
\* report is written and no error interrupted the analysis.  (Fails: after an
\* EmptyDataError, KeyError or other exception the report, marked incomplete,
\* is written and True is returned.)
C12_TrueIffCompleted ==
  pc = "done" => ((analysis = "True") <=> (report = "complete"))

\* C13: get_user_repos returns None after a non-rate-limit error and otherwise
\* a list of at most limit pairs, and it asks for a further page only after a
\* page that carried a 'next' link and left fetched_count below limit.
\* (Fails: a network error on the first request escapes as an exception, C5.)
C13_ReposResult ==
  /\ (/\ lastReq.fn = "get_user_repos"
      /\ (FailedAnswer \/ NetworkFailure)
      /\ ~rlSleep.slept) => returned = Ret("get_user_repos", PyNone)
  /\ (returned.fn = "get_user_repos" /\ returned.val # PyNone) =>
       (returned.val.kind = "list" /\ returned.val.val <= repos_limit)
  /\ (/\ pc = "get_user_repos"
      /\ lastReq.fn = "get_user_repos"
      /\ lastOutcome.status = 200) =>
       (lastOutcome.next /\ fetched_count < repos_limit)

\* The same when every request is answered by the server.
C13_ReposResultOnAnswers ==
  /\ (lastReq.fn = "get_user_repos" /\ FailedAnswer) =>
       returned = Ret("get_user_repos", PyNone)
  /\ (returned.fn = "get_user_repos" /\ returned.val # PyNone) =>
       (returned.val.kind = "list" /\ returned.val.val <= repos_limit)
  /\ (/\ pc = "get_user_repos"
      /\ lastReq.fn = "get_user_repos"
      /\ lastOutcome.status = 200) =>
       (lastOutcome.next /\ fetched_count < repos_limit)

\* C14: get_user_activity takes at most max_pages pages; it returns None after
\* a 404 or any non-rate-limit error, and otherwise one formatted string per
\* event received, in order (the empty list when there were none).  (Fails: a
\* network error on the first request escapes as an exception, C5.)
C14_ActivityResult ==
  /\ (/\ lastReq.fn = "get_user_activity"
      /\ (FailedAnswer \/ NetworkFailure)
      /\ ~rlSleep.slept) => returned = Ret("get_user_activity", PyNone)
  /\ (returned.fn = "get_user_activity" /\ lastOutcome.status = 200) =>
       /\ returned.val = Value("list", Len(lastOutcome.data))
       /\ lastOutcome.data # <<>> =>
            user_activity_map[user_data.login] = formatted(lastOutcome.data)
  /\ pc = "get_user_activity" => page <= max_pages

\* The same when every request is answered by the server.
C14_ActivityResultOnAnswers ==
  /\ (lastReq.fn = "get_user_activity" /\ FailedAnswer) =>
       returned = Ret("get_user_activity", PyNone)
  /\ (returned.fn = "get_user_activity" /\ lastOutcome.status = 200) =>
       /\ returned.val = Value("list", Len(lastOutcome.data))
       /\ lastOutcome.data # <<>> =>
            user_activity_map[user_data.login] = formatted(lastOutcome.data)
  /\ pc = "get_user_activity" => page <= max_pages

\* C15: in run_analysis, analyze_data runs only after the fetch step has
\* returned the filenames dict, which is the one it is called with; when the
\* fetch step raised or returned anything else, analyze_data is never called
\* and no report is written.
C15_AnalysisAfterFetch ==
  /\ (pc = "analyze_data" \/ analysis # "none") =>
       (caller = "run_analysis" /\ result = "filenames")
  /\ (pc = "done" /\ result # "filenames") =>
       (analysis = "none" /\ report = "none" /\ "report_md" \notin files)

\* C15 happens: analyze_data ran after the fetch step returned its filenames.
C15_Witness == pc = "done" /\ analysis # "none" /\ result = "filenames"

\* C16: against a server that serves a fixed list of N users with offset
\* pagination, a call of get_stargazers that no request failed in returns the
\* first min(limit, N) users in order (all N with limit=None).  (Fails: for a
\* limit above 100 that is no multiple of 100 the last page is requested with
\* a smaller per_page, which moves the page boundaries.)
C16_FirstStargazers ==
  (/\ server # None
   /\ returned.fn = "get_stargazers"
   /\ (lastReq = NoReq \/ lastOutcome.status = 200)) =>
    LET N == server[1]
        K == IF limit = None THEN N
             ELSE IF limit[1] <= 0 THEN 0
             ELSE IF limit[1] <= N THEN limit[1] ELSE N
    IN stargazers = [j \in 1..K |-> j]

\* The same for the limits of at most one page, and no limit.
C16_FirstStargazersOnePage ==
  (/\ server # None
   /\ returned.fn = "get_stargazers"
   /\ (lastReq = NoReq \/ lastOutcome.status = 200)
   /\ (limit = None \/ limit[1] <= 100)) =>
    LET N == server[1]
        K == IF limit = None THEN N
             ELSE IF limit[1] <= 0 THEN 0
             ELSE IF limit[1] <= N THEN limit[1] ELSE N
    IN stargazers = [j \in 1..K |-> j]

\* The functions that fetch page by page.
PagedFunctions == {"get_stargazers", "get_user_repos", "get_user_activity"}

\* C17: a step in which a paginated function handles a rate limit (it sleeps
\* and retries) leaves the page number and the lists accumulated so far as
\* they were, and the request that follows is the request that was made.
C17_RetryKeepsPage ==
  [][(pc \in PagedFunctions /\ rlSleep'.slept) =>
       /\ pc' = pc
       /\ page' = page
       /\ fetched_count' = fetched_count
       /\ per_page' = per_page
       /\ stargazers' = stargazers
       /\ repos' = repos
       /\ activities' = activities
       /\ next_request' = next_request
       /\ lastReq' = next_request]_vars

\* C17 happens: a rate limit was handled on the second page, with the items
\* of the first page accumulated.
C17_Witness ==
  /\ pc = "get_user_repos"
  /\ rlSleep.slept
  /\ rate_limited(lastOutcome)
  /\ page = 2
  /\ repos # <<>>

\* The rows appended so far are those of the first stargazers, in order, and
\* when the loop is over there is one row for every stargazer.
RowsFollowStargazers ==
  /\ Len(analysis_results) <= Len(stargazers)
  /\ \A k \in 1..Len(analysis_results) : analysis_results[k].login = stargazers[k]
  /\ pc = "export" => Len(analysis_results) = Len(stargazers)

\* get_user_details has failed for a stargazer: the row appended last is the
\* row of defaults of that stargazer, and the loop is at the next stargazer
\* of the list or, after the last one, over.
DetailsFailureKeepsErrorRow ==
  /\ analysis_results # <<>>
  /\ analysis_results[Len(analysis_results)] = error_row(lastReq.login)
  /\ \/ pc = "get_user_details" /\ i = Len(analysis_results) + 1
     \/ pc = "export" /\ Len(analysis_results) = Len(stargazers)

\* C18: one row per stargazer, in the order of the stargazers; when
\* get_user_details fails (an error status other than a rate limit, or a
\* network exception) the row keeps 'Error' in every field but login, no
\* further request is made for that stargazer, and the loop goes on.
\* (Fails: a network exception leaves the loop with UnboundLocalError, C5.)
C18_OneRowPerStargazer ==
  /\ RowsFollowStargazers
  /\ (lastReq.fn = "get_user_details" /\ (FailedAnswer \/ NetworkFailure)) =>
       DetailsFailureKeepsErrorRow

\* The same when every failure of get_user_details is an error status.
C18_OneRowPerStargazerOnAnswers ==
  /\ RowsFollowStargazers
  /\ (lastReq.fn = "get_user_details" /\ FailedAnswer) =>
       DetailsFailureKeepsErrorRow

\* C19: once get_starred_repos has returned, the status of the row is
\* 'Private (No Access to Starred Repo)' if the endpoint answered 404,
\* 'Public (Has Starred Repos)' if it answered a non-empty list, and 'Error'
\* only if the request failed for another reason.  (Fails: on 404.)
C19_StarredStatus ==
  returned.fn = "get_starred_repos" =>
    /\ lastOutcome.status = 404 =>
         starred_status = "Private (No Access to Starred Repo)"
    /\ (lastOutcome.status = 200 /\ lastOutcome.data # <<>>) =>
         starred_status = "Public (Has Starred Repos)"
    /\ starred_status = "Error" => (FailedAnswer /\ lastOutcome.status # 404)

\* What the code does: 'Error' after every failed request, 404 included,
\* 'Private (No Access to Starred Repo)' after an empty list.
C19_StarredStatusOfList ==
  returned.fn = "get_starred_repos" =>
    /\ FailedAnswer <=> starred_status = "Error"
    /\ (lastOutcome.status = 200 /\ lastOutcome.data = <<>>) <=>
         starred_status = "Private (No Access to Starred Repo)"
    /\ (lastOutcome.status = 200 /\ lastOutcome.data # <<>>) <=>
         starred_status = "Public (Has Starred Repos)"

\* The row says that the user has public repos or a non-empty starred list.
public_row(row) ==
  \/ row.has_public_repos = "True"
  \/ row.starred_repo_status = "Public (Has Starred Repos)"

\* C20: for a stargazer whose details were fetched, has_public_repos is True
\* exactly when public_repos is an integer > 0, the starred status is
\* 'Public (Has Starred Repos)' exactly when get_starred_repos returned a
\* non-empty list, and get_user_activity is called exactly when one of the two
\* holds; otherwise no activity request follows and the row is appended with
\* user_activity 'N/A (Private user)'.  Every login of user_activity_map has
\* a row whose activity is the non-empty list get_user_activity returned.
C20_ActivityOnlyForPublic ==
  /\ (returned.fn = "get_user_details" /\ returned.val.kind = "dict") =>
       (user_data.has_public_repos = "True" <=>
          (lastOutcome.data[1] # None /\ lastOutcome.data[1][1] > 0))
  /\ returned.fn = "get_starred_repos" =>
       (starred_status = "Public (Has Starred Repos)" <=>
          (returned.val.kind = "list" /\ returned.val.val > 0))
  /\ returned.fn = "get_total_starred_count" =>
       IF public_row(user_data)
       THEN pc = "get_user_activity" /\ next_request.fn = "get_user_activity"
       ELSE /\ pc # "get_user_activity"
            /\ next_request.fn # "get_user_activity"
            /\ analysis_results # <<>>
            /\ analysis_results[Len(analysis_results)] = user_data
            /\ user_data.user_activity = "N/A (Private user)"
  /\ pc = "get_user_activity" => public_row(user_data)
  /\ \A k \in 1..Len(analysis_results) :
       LET row == analysis_results[k]
       IN /\ row.user_activity = "N/A (Private user)" => ~public_row(row)
          /\ row.user_activity = "Error" => row = error_row(row.login)
          /\ row.user_activity \notin {"N/A (Private user)", "Error"} => public_row(row)
  /\ returned.fn = "get_user_activity" =>
       (user_data.user_activity = "events" <=>
          (returned.val.kind = "list" /\ returned.val.val > 0))
  /\ \A l \in DOMAIN user_activity_map :
       /\ user_activity_map[l] # <<>>
       /\ \E k \in 1..Len(analysis_results) :
            /\ analysis_results[k].login = l
            /\ analysis_results[k].user_activity = "events"

\* C20 happens: the details of a user were fetched, public_repos was not an
\* integer > 0 and no starred repo was listed, and the row was appended
\* without a request for the activity.
C20_Witness ==
  /\ returned.fn = "get_total_starred_count"
  /\ analysis_results # <<>>
  /\ analysis_results[Len(analysis_results)].user_activity = "N/A (Private user)"
  /\ lastReq.fn = "get_total_starred_count"

\* The rows whose owned repos were decided while user_owned_repos_map is
\* alive: the rows appended, and the row of the stargazer in progress once
\* the step of the owned repos is behind it.
repos_decided_rows ==
  {analysis_results[k] : k \in 1..Len(analysis_results)}
    \cup (IF pc \in {"get_starred_repos", "get_total_starred_count",
                     "get_total_starred_count_user", "get_user_activity"}
          THEN {user_data} ELSE {})

\* C21: for a stargazer whose details were fetched, get_user_repos is called
\* exactly when public_repos is an integer > 0; otherwise the next request
\* is that of the starred repos and top_5_repos is 'N/A (0 public repos)'.
\* The logins of user_owned_repos_map are those of the rows for which
\* get_user_repos was called and returned a list (a login listed twice is
\* in the map if one of its calls returned a list).
C21_ReposOnlyWithPublicRepos ==
  /\ (returned.fn = "get_user_details" /\ returned.val.kind = "dict") =>
       IF lastOutcome.data[1] # None /\ lastOutcome.data[1][1] > 0
       THEN /\ pc = "get_user_repos"
            /\ next_request.fn = "get_user_repos"
            /\ user_data.has_public_repos = "True"
       ELSE /\ pc = "get_starred_repos"
            /\ next_request.fn = "get_starred_repos"
            /\ user_data.has_public_repos # "True"
            /\ user_data.top_5_repos = "N/A (0 public repos)"
  /\ pc = "get_user_repos" => user_data.has_public_repos = "True"
  /\ returned.fn = "get_user_repos" =>
       /\ user_data.has_public_repos = "True"
       /\ returned.val.kind = "None" <=> user_data.top_5_repos = "Error fetching repos"
       /\ returned.val.kind = "list" <=> user_data.top_5_repos \in {"names", "None"}
       /\ returned.val.kind = "list" => user_data.login \in DOMAIN user_owned_repos_map
  /\ \A row \in repos_decided_rows :
       /\ row.top_5_repos = "N/A (0 public repos)" =>
            row.has_public_repos \in {"False", "Error"}
       /\ row.top_5_repos \in {"names", "None", "Error fetching repos"} =>
            row.has_public_repos = "True"
       /\ row.top_5_repos = "Error" => row = error_row(row.login)
  /\ pc \in {"get_user_details", "get_user_repos", "get_starred_repos",
             "get_total_starred_count", "get_total_starred_count_user",
             "get_user_activity", "export"} =>
       DOMAIN user_owned_repos_map =
         {row.login : row \in {r \in repos_decided_rows :
                                 r.top_5_repos \in {"names", "None"}}}

\* C21 happens: the details were fetched with public_repos not an integer
\* > 0, and the starred repos are next with no request for the owned repos.
C21_Witness ==
  /\ returned.fn = "get_user_details"
  /\ returned.val.kind = "dict"
  /\ pc = "get_starred_repos"
  /\ user_data.top_5_repos = "N/A (0 public repos)"
  /\ user_owned_repos_map = <<>>

\* fetch_and_save_stargazer_data is over: it returned, or an exception left it.
Terminated == pc \in {"returned", "raised", "analyze_data", "done"}

\* C22: with finitely many rate-limit answers and finitely many pages, every
\* call of fetch_and_save_stargazer_data terminates.  (Fails: after one
\* rate-limit answer a paginated function retries for as long as requests.get
\* raises, the except block reading the `response` of the earlier request.)
C22_Terminates == <>Terminated

\* The same for the runs in which requests.get stops raising.
C22_TerminatesOnAnswers == (<>[]~NetworkFailure) => <>Terminated

====
